---- MODULE Spec2Model ----
(***************************************************************************)
(* Model of display_bci_2d: the Graphics image transformer                 *)
(* (src/src/bci/graphics.py), the simulated LED strip                      *)
(* (src/src/bci/neopixel.py) and the ExternalDisplay and InternalDisplay   *)
(* sessions (src/src/bci/display.py).                                      *)
(*                                                                         *)
(* Numbers that are Python floats in the source (zoom factor, crop         *)
(* extents, crop centre) are exact rationals <<n, d>> with d > 0 here.     *)
(* Within the bounds below every such float is either a dyadic rational or *)
(* is only truncated/rounded away from a representability boundary, so the *)
(* rational value and the float value agree.                               *)
(*                                                                         *)
(* An intermediate object that the code stores and then reads several      *)
(* times is bound once, as v \in {e}, and the result is picked out of the   *)
(* one-element set built from it.                                          *)
(***************************************************************************)
EXTENDS Integers, Sequences, FiniteSets, TLC

VARIABLES graphics, stdout, accepted, calls, display, ppm, oob, window, log,
          raised

vars == <<graphics, stdout, accepted, calls, display, ppm, oob, window, log,
          raised>>

(***************************************************************************)
(* Bounds of the model.                                                    *)
(***************************************************************************)
MaxZoom == 16      \* zoom-in is explored while zoom_factor <= MaxZoom
MaxCalls == 3      \* direct calls on a Graphics object explored after load

(***************************************************************************)
(* Exact rational arithmetic.                                              *)
(***************************************************************************)
Abs(n) == IF n < 0 THEN -n ELSE n

RECURSIVE GCD(_, _)
GCD(a, b) == IF b = 0 THEN a ELSE GCD(b, a % b)

Norm(q) ==
  LET g == GCD(Abs(q[1]), q[2])
  IN IF q[1] = 0 THEN <<0, 1>> ELSE <<q[1] \div g, q[2] \div g>>

I(n) == <<n, 1>>
RMul(p, q) == Norm(<<p[1] * q[1], p[2] * q[2]>>)
RDiv(p, q) == Norm(<<p[1] * q[2], p[2] * q[1]>>)      \* q > 0
RAdd(p, q) == Norm(<<p[1] * q[2] + q[1] * p[2], p[2] * q[2]>>)
RSub(p, q) == Norm(<<p[1] * q[2] - q[1] * p[2], p[2] * q[2]>>)
RLeq(p, q) == p[1] * q[2] <= q[1] * p[2]
RLt(p, q) == p[1] * q[2] < q[1] * p[2]

\* Python int(): truncation toward zero.
int(q) == IF q[1] >= 0 THEN q[1] \div q[2] ELSE -((-q[1]) \div q[2])

\* Python round(): round half to even.
round(q) ==
  LET f == q[1] \div q[2]
      r == q[1] - f * q[2]
  IN IF 2 * r < q[2] THEN f
     ELSE IF 2 * r > q[2] THEN f + 1
     ELSE IF f % 2 = 0 THEN f ELSE f + 1

(***************************************************************************)
(* Pixel buffers (PIL.Image in RGBA mode): width, height and the pixels in *)
(* row-major order, each pixel <<red, green, blue, alpha>>.                *)
(***************************************************************************)
Transparent == <<0, 0, 0, 0>>

ImPixel(im, x, y) ==
  IF x >= 0 /\ x < im.w /\ y >= 0 /\ y < im.h
  THEN im.px[y * im.w + x + 1]
  ELSE Transparent

\* Image.crop(box): the box is rounded to integers, pixels outside the
\* source are filled with zeros.
ImCrop(im, box) ==
  LET x0 == round(box[1])
      y0 == round(box[2])
      x1 == round(box[3])
      y1 == round(box[4])
      w == IF x1 > x0 THEN x1 - x0 ELSE 0
      h == IF y1 > y0 THEN y1 - y0 ELSE 0
  IN [w |-> w, h |-> h,
      px |-> [k \in 1..(w * h) |->
                ImPixel(im, x0 + ((k - 1) % w), y0 + ((k - 1) \div w))]]

\* RGBA buffers are resampled in premultiplied form: a fully transparent
\* source pixel contributes no colour.
Premultiplied(p) == IF p[4] = 0 THEN Transparent ELSE p

\* Image.resize(size): a same-size resize is a copy; otherwise every target
\* pixel is sampled from the source position it covers, and an empty source
\* gives an all-zero buffer of the target size.
ImResize(im, w, h) ==
  IF im.w = w /\ im.h = h THEN im
  ELSE [w |-> w, h |-> h,
        px |-> [k \in 1..(w * h) |->
                  IF im.w = 0 \/ im.h = 0 THEN Transparent
                  ELSE Premultiplied(ImPixel(im,
                         ((2 * ((k - 1) % w) + 1) * im.w) \div (2 * w),
                         ((2 * ((k - 1) \div w) + 1) * im.h) \div (2 * h)))]]

(***************************************************************************)
(* Assets: the image files a session can load.                             *)
(***************************************************************************)
AssetDims == {<<2, 2>>, <<4, 2>>, <<1, 2>>, <<4, 4>>}

AssetPixel(x, y) ==
  IF (x + y) % 2 = 0 THEN <<200 + x, 100 + y, 50, 255>>
  ELSE <<200 + x, 100 + y, 50, 0>>

Asset(d) ==
  [w |-> d[1], h |-> d[2],
   px |-> [k \in 1..(d[1] * d[2]) |->
             AssetPixel((k - 1) % d[1], (k - 1) \div d[1])]]

EmptyImage == [w |-> 0, h |-> 0, px |-> <<>>]

(***************************************************************************)
(* Graphics (graphics.py).                                                 *)
(***************************************************************************)
NoGraphics ==
  [loaded |-> FALSE, image |-> EmptyImage, view |-> EmptyImage,
   width |-> 0, height |-> 0, zoom |-> I(0)]

\* Graphics._initialize for an existing asset.
initialize(d) ==
  [loaded |-> TRUE, image |-> Asset(d), view |-> Asset(d),
   width |-> d[1], height |-> d[2], zoom |-> I(1)]

\* Asset paths: the files that exist, and one that does not.
Missing == <<>>

Paths == AssetDims \cup {Missing}

\* self._path.exists()
exists(path) == path \in AssetDims

\* Variant of Graphics.__init__: the buffers are opened before the path is
\* checked.
GraphicsChecksLate(path) ==
  IF ~exists(path)
  THEN [graphics |-> [NoGraphics EXCEPT !.zoom = I(1)],
        raised |-> "FileNotFoundError"]
  ELSE [graphics |-> initialize(path), raised |-> "none"]

\* Graphics.__init__: the object that results and the exception raised.
Graphics(path) ==
  IF ~exists(path)
  THEN [graphics |-> NoGraphics, raised |-> "FileNotFoundError"]
  ELSE [graphics |-> initialize(path), raised |-> "none"]

\* The box Graphics.crop hands to Image.crop.
CropBoxOf(width, height, x, y) ==
  <<RSub(x, width), RSub(y, height), RAdd(x, width), RAdd(y, height)>>

\* Variant of Graphics.crop: the cut is taken from the view.
cropFromView(g, width, height, x, y, inplace) ==
  LET cut == ImCrop(g.view, CropBoxOf(width, height, x, y))
  IN IF ~inplace
     THEN [g EXCEPT !.view = cut]
     ELSE [g EXCEPT !.image = cut, !.view = cut]

\* Variant of Graphics.crop: the image is replaced whatever inplace says.
cropAlwaysInplace(g, width, height, x, y, inplace) ==
  LET cut == ImCrop(g.image, CropBoxOf(width, height, x, y))
  IN [g EXCEPT !.image = cut, !.view = cut]

\* Graphics.crop: always cuts from self.image.
crop(g, width, height, x, y, inplace) ==
  LET cut == ImCrop(g.image, CropBoxOf(width, height, x, y))
  IN IF ~inplace
     THEN [g EXCEPT !.view = cut]
     ELSE [g EXCEPT !.image = cut, !.view = cut]

\* The (crop_width, crop_height) computed by Graphics.resize when
\* keep_aspect_ratio is set, before int().
AspectCrop(W, H, width, height) ==
  LET aspect_ratio == Norm(<<width, height>>)
  IN IF RLeq(Norm(<<W, H>>), aspect_ratio)
     THEN LET cw == RMul(I(H), aspect_ratio)
          IN IF RLt(I(W), cw)
             THEN <<I(W), RDiv(I(W), aspect_ratio)>>
             ELSE <<cw, I(H)>>
     ELSE LET ch == RMul(I(W), aspect_ratio)
          IN IF RLt(I(H), ch)
             THEN <<RDiv(I(H), aspect_ratio), I(H)>>
             ELSE <<I(W), ch>>

\* The arguments of the crop call of resize(keep_aspect_ratio=True):
\* int(crop_width), int(crop_height), self.width / 2, self.height / 2.
AspectArgs(W, H, width, height) ==
  LET c == AspectCrop(W, H, width, height)
  IN <<I(int(c[1])), I(int(c[2])), Norm(<<W, 2>>), Norm(<<H, 2>>)>>

\* The region that crop call cuts out of the buffer.
AspectBox(W, H, width, height) ==
  LET a == AspectArgs(W, H, width, height)
  IN CropBoxOf(a[1], a[2], a[3], a[4])

\* Variant of scaled: the view is scaled to (height, width).
scaledSwapped(g, width, height, inplace) ==
  [IF ~inplace
   THEN [g EXCEPT !.view = ImResize(g.view, height, width)]
   ELSE [g EXCEPT !.image = ImResize(g.image, width, height),
                  !.view = ImResize(g.view, height, width)]
   EXCEPT !.width = width, !.height = height]

\* The scaling and bookkeeping that end Graphics.resize.
scaled(g, width, height, inplace) ==
  [IF ~inplace
   THEN [g EXCEPT !.view = ImResize(g.view, width, height)]
   ELSE [g EXCEPT !.image = ImResize(g.image, width, height),
                  !.view = ImResize(g.view, width, height)]
   EXCEPT !.width = width, !.height = height]

\* Variant of Graphics.resize: the aspect crop is taken whatever the flag.
resizeAlwaysCrops(g, width, height, keep_aspect_ratio, inplace) ==
  LET a == AspectArgs(g.width, g.height, width, height)
  IN CHOOSE r \in {scaled(g1, width, height, inplace) :
                    g1 \in {crop(g, a[1], a[2], a[3], a[4], inplace)}} : TRUE

\* Graphics.resize.
resize(g, width, height, keep_aspect_ratio, inplace) ==
  LET a == AspectArgs(g.width, g.height, width, height)
  IN CHOOSE r \in {scaled(g1, width, height, inplace) :
                    g1 \in {IF keep_aspect_ratio
                            THEN crop(g, a[1], a[2], a[3], a[4], inplace)
                            ELSE g}} : TRUE

\* zoom2 of Graphics.zoom.
Zoom2(g, factor) == RMul(RMul(g.zoom, factor), I(2))

\* Variant of the guard: a transform already at the floor rejects every zoom.
MinZoomSticky(g, factor) ==
  RLeq(Zoom2(g, factor), <<1, 8>>) \/ RLeq(g.zoom, <<1, 8>>)

\* Variant of the guard: strict comparison.
MinZoomStrict(g, factor) == RLt(Zoom2(g, factor), <<1, 8>>)

\* The guard "zoom2 <= 1 / 8" of Graphics.zoom.
MinZoomReached(g, factor) == RLeq(Zoom2(g, factor), <<1, 8>>)

\* The arguments of the crop call of an accepted zoom.
ZoomArgs(g, factor, center, x, y) ==
  <<RDiv(I(g.width), Zoom2(g, factor)), RDiv(I(g.height), Zoom2(g, factor)),
    IF center THEN Norm(<<g.width, 2>>) ELSE I(x),
    IF center THEN Norm(<<g.height, 2>>) ELSE I(y)>>

\* The crop of an accepted zoom, after the factor is accumulated.
zoomCrop(g, factor, center, x, y) ==
  LET a == ZoomArgs(g, factor, center, x, y)
  IN crop([g EXCEPT !.zoom = RMul(g.zoom, factor)],
          a[1], a[2], a[3], a[4], FALSE)

\* Variant of zoom: the factor is accumulated before the floor is tested.
zoomAccumulatesFirst(g, factor, center, x, y) ==
  IF MinZoomReached(g, factor)
  THEN [g EXCEPT !.zoom = RMul(g.zoom, factor)]
  ELSE CHOOSE r \in {resize(g2, g2.width, g2.height, FALSE, FALSE) :
                     g2 \in {zoomCrop(g, factor, center, x, y)}} : TRUE

\* Variant of zoom: the view keeps the size of the cropped region.
zoomKeepsCropSize(g, factor, center, x, y) ==
  IF MinZoomReached(g, factor) THEN g
  ELSE CHOOSE r \in {resize(g2, g2.view.w, g2.view.h, FALSE, FALSE) :
                     g2 \in {zoomCrop(g, factor, center, x, y)}} : TRUE

\* Variant of zoom: zoom2 is accumulated instead of the factor.
zoomAccumulatesZoom2(g, factor, center, x, y) ==
  IF MinZoomReached(g, factor) THEN g
  ELSE CHOOSE r \in {resize([g2 EXCEPT !.zoom = Zoom2(g, factor)],
                            g2.width, g2.height, FALSE, FALSE) :
                     g2 \in {zoomCrop(g, factor, center, x, y)}} : TRUE

\* Graphics.zoom.
zoom(g, factor, center, x, y) ==
  IF MinZoomReached(g, factor) THEN g
  ELSE CHOOSE r \in {resize(g2, g2.width, g2.height, FALSE, FALSE) :
                     g2 \in {zoomCrop(g, factor, center, x, y)}} : TRUE

\* What print() writes during Graphics.zoom.
zoomOutput(g, factor) ==
  IF MinZoomReached(g, factor) THEN <<"Minimo zoom atingido.">> ELSE <<>>

\* Graphics.to_ppm: header from the tracked dimensions, one line per pixel
\* of the view, fully transparent pixels written as "0 0 0".
to_ppm(g) ==
  [w |-> g.width, h |-> g.height,
   body |-> [k \in 1..Len(g.view.px) |->
               IF g.view.px[k][4] = 0 THEN <<0, 0, 0>>
               ELSE <<g.view.px[k][1], g.view.px[k][2], g.view.px[k][3]>>]]

\* Graphics.get_pixels: the view flattened row-major.
get_pixels(g) == g.view.px

(***************************************************************************)
(* NeoPixel (neopixel.py) and ExternalDisplay (display.py).                *)
(***************************************************************************)
\* np.zeros(led_count, dtype=Color): every slot holds the number 0, which is
\* no Color.
Zero == <<>>

\* Color(red, green, blue)
Color(red, green, blue) == <<red, green, blue>>

NoDisplay ==
  [state |-> "none", width |-> 0, height |-> 0, led_count |-> 0,
   pixels |-> <<>>]

NoPpm == [w |-> 0, h |-> 0, body |-> <<>>]

\* The [specs] table of settings/led_matrix.toml:
\* <<width_count, height_count, led_count>>.
Configs == {<<2, 2, 4>>, <<4, 4, 4>>, <<4, 4, 16>>, <<4, 2, 8>>, <<2, 2, 3>>,
            <<2, 2, 5>>, <<0, 2, 4>>}

\* Variant of the check: "and" in place of "or".
constructErrorBoth(width, height) ==
  IF height <= 0 /\ width <= 0
  THEN "ValueError: Height and width must be greater than zero."
  ELSE "none"

\* The check of _Display.__init__.
constructError(width, height) ==
  IF height <= 0 \/ width <= 0
  THEN "ValueError: Height and width must be greater than zero."
  ELSE "none"

\* ExternalDisplay.__init__: _load_config, _Display.__init__, _initialize.
construct(cfg) ==
  IF cfg[2] <= 0 \/ cfg[1] <= 0
  THEN [NoDisplay EXCEPT !.state = "value_error"]
  ELSE [state |-> "constructed", width |-> cfg[1], height |-> cfg[2],
        led_count |-> cfg[3], pixels |-> [i \in 1..cfg[3] |-> Zero]]

\* Variant of the pixel loop: the source index is off by one.
writePixelsShifted(frame, pixels) ==
  [i \in 1..Len(frame) |->
     IF i < Len(pixels)
     THEN Color(pixels[i + 1][1], pixels[i + 1][2], pixels[i + 1][3])
     ELSE frame[i]]

\* The loop "for i in range(numPixels()): setPixelColor(i, Color(pixels[i]...))":
\* pixels[i] raises IndexError at the first i past the end of the array.
writePixels(frame, pixels) ==
  [i \in 1..Len(frame) |->
     IF i <= Len(pixels)
     THEN Color(pixels[i][1], pixels[i][2], pixels[i][3])
     ELSE frame[i]]

IndexError(frame, pixels) == Len(frame) > Len(pixels)

\* The pixel loop and _frame.show() shared by ExternalDisplay.show and
\* ExternalDisplay.update, on the session s = [display, ppm, oob, log]; log
\* lists the output effects of the running handler in the order they happen.
render(s, g) ==
  IF s.display.state # "listening" THEN s
  ELSE IF IndexError(s.display.pixels, get_pixels(g))
  THEN [s EXCEPT !.display.pixels = writePixels(@, get_pixels(g)),
                 !.display.state = "index_error",
                 !.oob = TRUE,
                 !.log = Append(@, "setPixelColor")]
  ELSE [s EXCEPT !.display.pixels = writePixels(@, get_pixels(g)),
                 !.log = @ \o <<"setPixelColor", "show">>]

\* The exception that ended the handler whose session is s.
renderError(s) ==
  IF s.display.state = "index_error" THEN "IndexError" ELSE "none"

\* ExternalDisplay.update: render, then dump the view.
update(s, g) ==
  CHOOSE u \in {IF r.display.state # "listening" THEN r
                ELSE [r EXCEPT !.ppm = to_ppm(g),
                               !.log = Append(@, "to_ppm")] :
                r \in {render(s, g)}} : TRUE

\* ExternalDisplay.show up to the entry of the listener loop, after the
\* resize to the grid: dump the view, render.
show(s, g) ==
  render([s EXCEPT !.display.state = "listening", !.ppm = to_ppm(g),
                   !.log = Append(@, "to_ppm")], g)

\* _Display.add_zoom followed by the second update() of _on_press.
on_press(s, g) ==
  CHOOSE r \in {update(u, g) : u \in {update(s, g)}} : TRUE

(***************************************************************************)
(* InternalDisplay (display.py): the Tk window and its panel, which is     *)
(* <<>> while self._panel is None and <<image>> once a Label shows image.  *)
(***************************************************************************)
NoWindow == [state |-> "none", width |-> 0, height |-> 0, panel |-> <<>>]

\* InternalDisplay.__init__: _Display.__init__, then _initialize.
constructInternal(width, height) ==
  IF constructError(width, height) # "none" THEN NoWindow
  ELSE [state |-> "constructed", width |-> width, height |-> height,
        panel |-> <<>>]

\* InternalDisplay.show up to the entry of mainloop.
showInternal(w, g) == [w EXCEPT !.state = "mainloop", !.panel = <<g.view>>]

\* Variant of InternalDisplay.update: a missing panel is created.
updateInternalLazy(w, g) ==
  [window |-> [w EXCEPT !.panel = <<g.view>>], raised |-> "none"]

\* InternalDisplay.update: the window that results and the exception raised.
updateInternal(w, g) ==
  IF w.panel = <<>>
  THEN [window |-> w, raised |-> "ValueError: Panel is not initialized."]
  ELSE [window |-> [w EXCEPT !.panel = <<g.view>>], raised |-> "none"]

(***************************************************************************)
(* The Graphics object used on its own: load, then any public call.        *)
(***************************************************************************)
Init ==
  /\ graphics = NoGraphics
  /\ stdout = <<>>
  /\ accepted = I(1)
  /\ calls = 0
  /\ display = NoDisplay
  /\ ppm = NoPpm
  /\ oob = FALSE
  /\ window = NoWindow
  /\ log = <<>>
  /\ raised = "none"

\* Graphics(asset_path): the asset exists or not.
Load ==
  /\ ~graphics.loaded
  /\ \E path \in Paths :
       /\ graphics' = Graphics(path).graphics
       /\ raised' = Graphics(path).raised
  /\ stdout' = <<>>
  /\ UNCHANGED <<accepted, calls, display, ppm, oob, window, log>>

CropArgs == {<<1, 1, 1, 1>>, <<1, 1, 0, 0>>, <<2, 1, 2, 1>>}
ResizeTargets == {<<2, 2>>, <<3, 3>>, <<1, 2>>, <<3, 2>>}
ZoomFactors == {I(2), <<1, 2>>, <<3, 4>>, <<1, 16>>}
ZoomCentres == {<<TRUE, 0, 0>>, <<FALSE, 0, 0>>, <<FALSE, 1, 1>>}

\* graphics.crop(width, height, x, y, inplace)
CallCrop(width, height, x, y, inplace) ==
  /\ graphics.loaded
  /\ calls < MaxCalls
  /\ graphics' = crop(graphics, I(width), I(height), I(x), I(y), inplace)
  /\ stdout' = <<>>
  /\ calls' = calls + 1
  /\ UNCHANGED <<accepted, display, ppm, oob, window, log, raised>>

\* graphics.resize(width, height, keep_aspect_ratio, inplace)
CallResize(width, height, keep_aspect_ratio, inplace) ==
  /\ graphics.loaded
  /\ calls < MaxCalls
  /\ graphics' = resize(graphics, width, height, keep_aspect_ratio, inplace)
  /\ stdout' = <<>>
  /\ calls' = calls + 1
  /\ UNCHANGED <<accepted, display, ppm, oob, window, log, raised>>

\* graphics.zoom(factor, center, x, y)
CallZoom(factor, center, x, y) ==
  /\ graphics.loaded
  /\ calls < MaxCalls
  /\ RLeq(RMul(graphics.zoom, factor), I(MaxZoom))
  /\ graphics' = zoom(graphics, factor, center, x, y)
  /\ stdout' = zoomOutput(graphics, factor)
  /\ accepted' = IF MinZoomReached(graphics, factor) THEN accepted
                 ELSE RMul(accepted, factor)
  /\ calls' = calls + 1
  /\ UNCHANGED <<display, ppm, oob, window, log, raised>>

Crops == \E a \in CropArgs, inplace \in BOOLEAN :
           CallCrop(a[1], a[2], a[3], a[4], inplace)

Resizes == \E t \in ResizeTargets, keep_aspect_ratio \in BOOLEAN,
              inplace \in BOOLEAN :
             CallResize(t[1], t[2], keep_aspect_ratio, inplace)

Zooms == \E factor \in ZoomFactors, c \in ZoomCentres :
           CallZoom(factor, c[1], c[2], c[3])

Next == Load \/ Crops \/ Resizes \/ Zooms

Spec == Init /\ [][Next]_vars

(***************************************************************************)
(* The ExternalDisplay session of main.py: load the asset, construct the   *)
(* display, show, then key presses.                                        *)
(***************************************************************************)
\* ExternalDisplay()
Construct ==
  /\ graphics.loaded
  /\ display.state = "none"
  /\ window.state = "none"
  /\ \E cfg \in Configs :
       /\ display' = construct(cfg)
       /\ raised' = constructError(cfg[1], cfg[2])
  /\ UNCHANGED <<graphics, stdout, accepted, calls, ppm, oob, window, log>>

\* display.show(image), up to the entry of the listener loop.
Show ==
  /\ display.state = "constructed"
  /\ \E g \in {resize(graphics, display.width, display.height, TRUE, TRUE)} :
       \E s \in {show([display |-> display, ppm |-> ppm, oob |-> oob,
                        log |-> <<>>], g)} :
         /\ graphics' = g
         /\ display' = s.display
         /\ ppm' = s.ppm
         /\ oob' = s.oob
         /\ log' = s.log
         /\ raised' = renderError(s)
  /\ UNCHANGED <<stdout, accepted, calls, window>>

\* _on_press applying the zoom step in add_zoom and once more before update.
PressZoomsTwice(zoom_out) ==
  /\ display.state = "listening"
  /\ \E factor \in {IF zoom_out THEN <<1, 2>> ELSE I(2)} :
       /\ RLeq(RMul(graphics.zoom, factor), I(MaxZoom))
       /\ \E h \in {zoom(graphics, factor, TRUE, 0, 0)} :
            \E g \in {zoom(h, factor, TRUE, 0, 0)} :
              \E s \in {on_press([display |-> display, ppm |-> ppm,
                                  oob |-> oob, log |-> <<>>], g)} :
                /\ graphics' = g
                /\ display' = s.display
                /\ ppm' = s.ppm
                /\ oob' = s.oob
                /\ log' = s.log
                /\ raised' = renderError(s)
       /\ stdout' = zoomOutput(graphics, factor)
       /\ accepted' = IF MinZoomReached(graphics, factor) THEN accepted
                      ELSE RMul(accepted, factor)
  /\ UNCHANGED <<calls, window>>

\* _on_press rendering the view it had before the zoom.
PressRendersStale(zoom_out) ==
  /\ display.state = "listening"
  /\ \E factor \in {IF zoom_out THEN <<1, 2>> ELSE I(2)} :
       /\ RLeq(RMul(graphics.zoom, factor), I(MaxZoom))
       /\ \E g \in {zoom(graphics, factor, TRUE, 0, 0)} :
            \E s \in {on_press([display |-> display, ppm |-> ppm,
                                oob |-> oob, log |-> <<>>], graphics)} :
              /\ graphics' = g
              /\ display' = s.display
              /\ ppm' = s.ppm
              /\ oob' = s.oob
              /\ log' = s.log
              /\ raised' = renderError(s)
       /\ stdout' = zoomOutput(graphics, factor)
       /\ accepted' = IF MinZoomReached(graphics, factor) THEN accepted
                      ELSE RMul(accepted, factor)
  /\ UNCHANGED <<calls, window>>

\* _on_press for the key whose char is '+' (zoom_out = FALSE) or '-'.
Press(zoom_out) ==
  /\ display.state = "listening"
  /\ \E factor \in {IF zoom_out THEN <<1, 2>> ELSE I(2)} :
       /\ RLeq(RMul(graphics.zoom, factor), I(MaxZoom))
       /\ \E g \in {zoom(graphics, factor, TRUE, 0, 0)} :
            \E s \in {on_press([display |-> display, ppm |-> ppm,
                                oob |-> oob, log |-> <<>>], g)} :
              /\ graphics' = g
              /\ display' = s.display
              /\ ppm' = s.ppm
              /\ oob' = s.oob
              /\ log' = s.log
              /\ raised' = renderError(s)
       /\ stdout' = zoomOutput(graphics, factor)
       /\ accepted' = IF MinZoomReached(graphics, factor) THEN accepted
                      ELSE RMul(accepted, factor)
  /\ UNCHANGED <<calls, window>>

PressPlus == Press(FALSE)

PressMinus == Press(TRUE)

NextExternal == Load \/ Construct \/ Show \/ PressPlus \/ PressMinus

SpecExternal == Init /\ [][NextExternal]_vars

\* The same session when the only key pressed is '-', pressed again and again.
NextZoomOut == Load \/ Construct \/ Show \/ PressMinus

SpecZoomOut == Init /\ [][NextZoomOut]_vars

(***************************************************************************)
(* main.py with either display_type: the ExternalDisplay session above or  *)
(* an InternalDisplay session on the same Graphics object.                 *)
(***************************************************************************)
\* The sizes handed to InternalDisplay: the image's own (main.py) and two
\* that _Display.__init__ refuses.
WindowSizes(g) == {<<g.width, g.height>>, <<0, g.height>>, <<g.width, -1>>}

\* display = InternalDisplay(width, height)
ConstructInternal ==
  /\ graphics.loaded
  /\ display.state = "none"
  /\ window.state = "none"
  /\ \E d \in WindowSizes(graphics) :
       /\ window' = constructInternal(d[1], d[2])
       /\ raised' = constructError(d[1], d[2])
  /\ UNCHANGED <<graphics, stdout, accepted, calls, display, ppm, oob, log>>

\* display.update() on a window that has not been shown.
CallUpdate ==
  /\ window.state = "constructed"
  /\ \E r \in {updateInternal(window, graphics)} :
       /\ window' = r.window
       /\ raised' = r.raised
  /\ UNCHANGED <<graphics, stdout, accepted, calls, display, ppm, oob, log>>

\* display.show(image), up to the entry of mainloop.
ShowInternal ==
  /\ window.state = "constructed"
  /\ window' = showInternal(window, graphics)
  /\ raised' = "none"
  /\ UNCHANGED <<graphics, stdout, accepted, calls, display, ppm, oob, log>>

\* The handler bound to <KP_Add> (zoom_out = FALSE) or <KP_Subtract>:
\* add_zoom, which zooms and then calls update.
Key(zoom_out) ==
  /\ window.state = "mainloop"
  /\ \E factor \in {IF zoom_out THEN <<1, 2>> ELSE I(2)} :
       /\ RLeq(RMul(graphics.zoom, factor), I(MaxZoom))
       /\ \E g \in {zoom(graphics, factor, TRUE, 0, 0)} :
            \E r \in {updateInternal(window, g)} :
              /\ graphics' = g
              /\ window' = r.window
              /\ raised' = r.raised
       /\ stdout' = zoomOutput(graphics, factor)
       /\ accepted' = IF MinZoomReached(graphics, factor) THEN accepted
                      ELSE RMul(accepted, factor)
  /\ UNCHANGED <<calls, display, ppm, oob, log>>

KP_Add == Key(FALSE)

KP_Subtract == Key(TRUE)

NextMain ==
  \/ Load
  \/ Construct
  \/ Show
  \/ PressPlus
  \/ PressMinus
  \/ ConstructInternal
  \/ CallUpdate
  \/ ShowInternal
  \/ KP_Add
  \/ KP_Subtract

SpecMain == Init /\ [][NextMain]_vars

(***************************************************************************)
(* Properties.                                                             *)
(***************************************************************************)
MinZoomMessage == <<"Minimo zoom atingido.">>

\* C1: a zoom(factor) call with zoom_factor*factor*2 <= 1/8 leaves the whole
\* Graphics object (zoom factor, tracked width and height, view, image) as it
\* was and prints the minimum-zoom message.
C1_RejectedZoomChangesNothing ==
  [][\A factor \in ZoomFactors, c \in ZoomCentres :
       (/\ 8 * graphics.zoom[1] * factor[1] * 2
             <= graphics.zoom[2] * factor[2]
        /\ CallZoom(factor, c[1], c[2], c[3]))
       => (graphics' = graphics /\ stdout' = MinZoomMessage)]_vars

\* A zoom call has just been rejected on an object whose zoom factor earlier
\* calls had changed.
C1_Witness ==
  /\ graphics.loaded
  /\ calls > 1
  /\ stdout = MinZoomMessage
  /\ graphics.zoom # I(1)

\* C2: in every reachable state, zoom(2) followed by zoom(0.5) gives back the
\* zoom factor and the tracked width and height the state had.
C2_ZoomInThenOutRestores ==
  graphics.loaded =>
    \A g1 \in {zoom(graphics, I(2), TRUE, 0, 0)} :
      \A g2 \in {zoom(g1, <<1, 2>>, TRUE, 0, 0)} :
        /\ g2.zoom = graphics.zoom
        /\ g2.width = graphics.width
        /\ g2.height = graphics.height

\* A state at the lowest zoom factor the floor allows and with a resized
\* view, from which both calls are accepted.
C2_Witness ==
  /\ graphics.loaded
  /\ calls > 1
  /\ graphics.zoom = <<1, 8>>
  /\ \E g1 \in {zoom(graphics, I(2), TRUE, 0, 0)} :
       /\ g1.zoom = <<1, 4>>
       /\ zoom(g1, <<1, 2>>, TRUE, 0, 0).zoom = <<1, 8>>

\* C4: the zoom factor is positive, is 1 right after load, and is the
\* product of the factors of the zoom calls accepted so far.
C4_ZoomIsProductOfAccepted ==
  graphics.loaded =>
    /\ graphics.zoom[1] > 0 /\ graphics.zoom[2] > 0
    /\ (calls = 0 /\ display.state = "none" => graphics.zoom = I(1))
    /\ graphics.zoom = accepted

\* Accepted calls have moved the zoom factor and the last call was rejected.
C4_Witness ==
  /\ graphics.loaded
  /\ graphics.zoom # I(1)
  /\ accepted # I(1)
  /\ stdout = MinZoomMessage

\* C5: after any sequence of crop, resize and zoom calls the view buffer has
\* the tracked width and height (which only _initialize and resize assign).
C5_ViewHasTrackedSize ==
  graphics.loaded =>
    /\ graphics.view.w = graphics.width
    /\ graphics.view.h = graphics.height

\* The region the rounded box covers.
Inscribed(box, W, H) ==
  /\ 0 <= round(box[1]) /\ round(box[3]) <= W
  /\ 0 <= round(box[2]) /\ round(box[4]) <= H

\* C6: the region resize(width, height, keep_aspect_ratio=True) crops has
\* aspect ratio width/height before truncation and lies inside the buffer
\* of the tracked size.
C6_AspectCropInscribed ==
  [][\A t \in ResizeTargets, inplace \in BOOLEAN :
       CallResize(t[1], t[2], TRUE, inplace)
       => LET c == AspectCrop(graphics.width, graphics.height, t[1], t[2])
          IN /\ RDiv(c[1], c[2]) = Norm(<<t[1], t[2]>>)
             /\ Inscribed(AspectBox(graphics.width, graphics.height,
                                     t[1], t[2]),
                           graphics.width, graphics.height)]_vars

Shown == display.state \in {"listening", "index_error"}

\* C3: when '-' is pressed again and again from zoom factor 1, a press is
\* accepted (the factor is halved) while zoom_factor*(1/2)*2 > 1/8 and is
\* rejected and reported otherwise, so the factor only takes the values 1,
\* 1/2, 1/4, 1/8: the fourth press and every later one is rejected.
C3_ZoomOutStopsAtFloor ==
  /\ [](display.state = "listening"
         => graphics.zoom \in {I(1), <<1, 2>>, <<1, 4>>, <<1, 8>>})
  /\ [][PressMinus =>
          IF 8 * graphics.zoom[1] <= graphics.zoom[2]
          THEN graphics' = graphics /\ stdout' = MinZoomMessage
          ELSE /\ 2 * graphics'.zoom[1] * graphics.zoom[2]
                    = graphics.zoom[1] * graphics'.zoom[2]
               /\ stdout' = <<>>]_vars

\* The fourth zoom-out press has been rejected at zoom factor 1/8.
C3_Witness ==
  /\ display.state = "listening"
  /\ graphics.zoom = <<1, 8>>
  /\ stdout = MinZoomMessage

\* C7: once shown on the LED matrix the view is exactly width_count by
\* height_count and stays so through every zoom event, and the LED strip has
\* led_count entries from construction on.
C7_ViewFitsGridAndGridLengthFixed ==
  /\ (Shown => /\ graphics.view.w = display.width
               /\ graphics.view.h = display.height
               /\ graphics.width = display.width
               /\ graphics.height = display.height)
  /\ (display.state \in {"constructed", "listening", "index_error"}
        => Len(display.pixels) = display.led_count)

\* A grid with fewer LEDs than view pixels, zoomed in until the cropped
\* region is empty and the view is all transparent.
C7_Witness ==
  /\ display.state = "listening"
  /\ display.led_count < display.width * display.height
  /\ graphics.zoom = I(4)
  /\ \A k \in 1..Len(graphics.view.px) : graphics.view.px[k] = Transparent

\* C8: after every render whose source has at least led_count pixels, LED i
\* holds the red, green and blue of view pixel i (row-major) for every
\* i < led_count, and nothing else is written.
C8_LedsMirrorView ==
  display.state = "listening" =>
    /\ Len(display.pixels) = display.led_count
    /\ \A i \in 1..display.led_count :
         display.pixels[i] = <<graphics.view.px[i][1], graphics.view.px[i][2],
                               graphics.view.px[i][3]>>

\* A render after a zoom event, with view pixels beyond the strip and LEDs of
\* different colours.
C8_Witness ==
  /\ display.state = "listening"
  /\ graphics.zoom # I(1)
  /\ display.led_count < Len(graphics.view.px)
  /\ \E i, j \in 1..display.led_count : display.pixels[i] # display.pixels[j]

\* C9: no render reads a view pixel index past the end of the pixel array,
\* whatever the configuration.
C9_NoOutOfRangeRead == oob = FALSE

\* C10: after a render every LED whose view pixel has alpha 0 is black.
C10_TransparentIsBlack ==
  display.state = "listening" =>
    \A i \in 1..display.led_count :
      graphics.view.px[i][4] = 0 => display.pixels[i] = <<0, 0, 0>>

(***************************************************************************)
(* Order of the output effects of a render on the ExternalDisplay.         *)
(***************************************************************************)
\* C11: in every render on the LED matrix, the initial one and the ones a
\* zoom event triggers, the pixel dump is written right after the LED grid
\* has been written and shown, and the dump describes the view presented.
C11_DumpAfterPresent ==
  (display.state = "listening" /\ log # <<>>) =>
    /\ \A i \in 1..Len(log) :
         log[i] = "to_ppm" => (i > 1 /\ log[i - 1] = "show")
    /\ \E i \in 1..Len(log) : log[i] = "to_ppm"
    /\ ppm = to_ppm(graphics)

(***************************************************************************)
(* Zoom events on both displays.                                           *)
(***************************************************************************)
\* What the display presents: the LED colours, or the image of the panel.
Presents(d, w, g) ==
  /\ d.state = "listening" =>
       \A i \in 1..d.led_count :
         i <= Len(g.view.px) =>
           d.pixels[i] = <<g.view.px[i][1], g.view.px[i][2], g.view.px[i][3]>>
  /\ w.state = "mainloop" => w.panel = <<g.view>>

\* C12: every zoom-in or zoom-out event applies Graphics.zoom with factor 2
\* or 1/2 and then renders the view that results on its display within the
\* same handler, also when the zoom is rejected at the floor: the view that
\* was there is then rendered again.
C12_ZoomThenRender ==
  [][\A zoom_out \in BOOLEAN :
       (Press(zoom_out) \/ Key(zoom_out)) =>
         /\ graphics' = zoom(graphics, IF zoom_out THEN <<1, 2>> ELSE I(2),
                             TRUE, 0, 0)
         /\ display'.state = display.state
         /\ window'.state = window.state
         /\ Presents(display', window', graphics')
         /\ display.state = "listening" =>
              \E i \in 1..Len(log') : log'[i] = "show"
         /\ raised' = "none"]_vars

\* A rejected zoom-out has been handled and rendered on the LED matrix, with
\* LEDs of different colours.
C12_Witness ==
  /\ display.state = "listening"
  /\ stdout = MinZoomMessage
  /\ graphics.zoom = <<1, 8>>
  /\ \E i \in 1..Len(log) : log[i] = "show"
  /\ display.led_count > 0
  /\ raised = "none"

\* C13: on the window and on the LED matrix alike, a zoom-in or zoom-out
\* event applies exactly one zoom step: zoom_factor is multiplied once by 2
\* or by 1/2, or kept when the step is rejected, and the tracked width and
\* height stay what they were, so equal event sequences end with equal
\* zoom_factor and tracked size relative to the start on both displays.
C13_OneZoomStepPerEvent ==
  [][\A zoom_out \in BOOLEAN :
       \A factor \in {IF zoom_out THEN <<1, 2>> ELSE I(2)} :
         (Press(zoom_out) \/ Key(zoom_out)) =>
           /\ graphics'.zoom =
                IF RLeq(RMul(RMul(graphics.zoom, factor), I(2)), <<1, 8>>)
                THEN graphics.zoom
                ELSE RMul(graphics.zoom, factor)
           /\ graphics'.width = graphics.width
           /\ graphics'.height = graphics.height
           /\ graphics'.image = graphics.image]_vars

\* The window has handled zoom events that took zoom_factor from 1 to 4.
C13_Witness ==
  /\ window.state = "mainloop"
  /\ graphics.zoom = I(4)
  /\ accepted = I(4)
  /\ window.panel = <<graphics.view>>

\* C14: a zoom-out rejected at the floor ends nothing: no exception leaves
\* the handler, the display stays in its rendered state, the next zoom-in
\* is not rejected, and when it comes it doubles zoom_factor and the view
\* that results is rendered.
C14_RejectedZoomOutIsSoft ==
  /\ [](stdout = MinZoomMessage =>
          /\ display.state = "listening" \/ window.state = "mainloop"
          /\ raised = "none"
          /\ Presents(display, window, graphics)
          /\ zoom(graphics, I(2), TRUE, 0, 0).zoom = RMul(graphics.zoom, I(2))
          /\ RLeq(RMul(graphics.zoom, I(2)), I(MaxZoom)))
  /\ [][(stdout = MinZoomMessage /\ (PressPlus \/ KP_Add)) =>
          /\ graphics'.zoom = RMul(graphics.zoom, I(2))
          /\ stdout' = <<>>
          /\ display'.state = display.state
          /\ window'.state = window.state
          /\ raised' = "none"
          /\ Presents(display', window', graphics')]_vars

\* The LED matrix session right after a rejected zoom-out: still listening,
\* the LEDs showing the view, no exception raised.
C14_Witness ==
  /\ stdout = MinZoomMessage
  /\ display.state = "listening"
  /\ window.state = "none"
  /\ raised = "none"
  /\ Presents(display, window, graphics)
  /\ zoom(graphics, I(2), TRUE, 0, 0).zoom = RMul(graphics.zoom, I(2))

(***************************************************************************)
(* Failing constructors and calls.                                         *)
(***************************************************************************)
GeometryError == "ValueError: Height and width must be greater than zero."

\* What a constructor call has to do, for either display.
ConstructGeometry ==
  /\ Construct =>
       \E cfg \in Configs :
         /\ display' = construct(cfg)
         /\ IF cfg[1] > 0 /\ cfg[2] > 0
            THEN /\ display'.state = "constructed"
                 /\ Len(display'.pixels) = cfg[3]
                 /\ raised' = "none"
            ELSE /\ display'.state = "value_error"
                 /\ display'.pixels = <<>>
                 /\ raised' = GeometryError
         /\ window' = NoWindow
  /\ ConstructInternal =>
       \E d \in WindowSizes(graphics) :
         /\ window' = constructInternal(d[1], d[2])
         /\ IF d[1] > 0 /\ d[2] > 0
            THEN /\ window'.state = "constructed"
                 /\ window'.width = d[1]
                 /\ window'.height = d[2]
                 /\ raised' = "none"
            ELSE /\ window' = NoWindow
                 /\ raised' = GeometryError
         /\ display' = NoDisplay

\* C15: constructing a display with width > 0 and height > 0 succeeds, and
\* with width <= 0 or height <= 0 it fails with the ValueError of
\* _Display.__init__ and leaves no LED strip and no window behind.
C15_ConstructChecksGeometry == [][ConstructGeometry]_vars

\* InternalDisplay has been called with a width or height that is not
\* positive: the error is raised and there is no window and no LED strip.
C15_Witness ==
  /\ raised = GeometryError
  /\ window = NoWindow
  /\ display = NoDisplay
  /\ graphics.loaded

\* What Graphics(asset_path) has to do.
LoadOutcome ==
  Load =>
    \E path \in Paths :
      /\ graphics' = Graphics(path).graphics
      /\ raised' = Graphics(path).raised
      /\ IF path \in AssetDims
         THEN /\ raised' = "none"
              /\ graphics'.loaded
              /\ graphics'.zoom = I(1)
              /\ graphics'.view = graphics'.image
              /\ graphics'.image = Asset(path)
              /\ graphics'.width = path[1]
              /\ graphics'.height = path[2]
         ELSE /\ raised' = "FileNotFoundError"
              /\ ~graphics'.loaded
              /\ graphics'.image = EmptyImage
              /\ graphics'.view = EmptyImage
              /\ graphics'.width = 0
              /\ graphics'.height = 0
              /\ graphics'.zoom = I(0)

\* C16: loading a path that does not exist fails with FileNotFoundError and
\* sets no image, view, size or zoom factor; loading one that exists gives
\* zoom factor 1, a view equal to the image and the image's own size as
\* tracked width and height.
C16_LoadAllOrNothing ==
  /\ [][LoadOutcome]_vars
  /\ [](raised = "FileNotFoundError" => graphics = NoGraphics)
  /\ [](graphics.loaded => raised # "FileNotFoundError")

\* A load of a missing path has failed and nothing is loaded.
C16_Witness ==
  /\ raised = "FileNotFoundError"
  /\ ~graphics.loaded
  /\ graphics.view = EmptyImage

(***************************************************************************)
(* Graphics.resize and the image buffer.                                   *)
(***************************************************************************)
\* C17: resize(w, h) called twice in a row with the same (w, h) and the
\* default keep_aspect_ratio = False leaves after the second call the view
\* and the tracked width and height that the first call left, from any
\* state a Graphics object can be in.
C17_ResizeTwiceIsResizeOnce ==
  graphics.loaded =>
    \A t \in ResizeTargets : \A inplace \in BOOLEAN :
      \A first \in {resize(graphics, t[1], t[2], FALSE, inplace)} :
        \A second \in {resize(first, t[1], t[2], FALSE, inplace)} :
          /\ second.view = first.view
          /\ second.width = first.width
          /\ second.height = first.height
          /\ first.width = t[1] /\ first.height = t[2]

\* A Graphics object whose last two calls could be the same resize: its view
\* has a size of ResizeTargets, differs in size from the image, and was
\* produced by resampling a view of another size.
C17_Witness ==
  /\ graphics.loaded
  /\ calls >= 2
  /\ <<graphics.width, graphics.height>> \in ResizeTargets
  /\ graphics.view.w = graphics.width
  /\ graphics.view.h = graphics.height
  /\ graphics.view.w # graphics.image.w
  /\ resize(graphics, graphics.width, graphics.height, FALSE, FALSE) = graphics

\* C18: zoom, crop(inplace=False) and resize(inplace=False) leave the image
\* buffer, and with it its size, as it was, for any arguments and from any
\* state a Graphics object can be in; only crop and resize with inplace=True
\* replace it.
C18_ImageChangedOnlyInplace ==
  graphics.loaded =>
    /\ \A f \in ZoomFactors : \A c \in ZoomCentres :
         zoom(graphics, f, c[1], c[2], c[3]).image = graphics.image
    /\ \A a \in CropArgs :
         crop(graphics, I(a[1]), I(a[2]), I(a[3]), I(a[4]), FALSE).image
           = graphics.image
    /\ \A t \in ResizeTargets : \A k \in BOOLEAN :
         resize(graphics, t[1], t[2], k, FALSE).image = graphics.image

\* A Graphics object whose image an inplace call has replaced, and whose
\* view a later zoom has replaced while the image stayed.
C18_Witness ==
  /\ graphics.loaded
  /\ graphics.image \notin {Asset(d) : d \in AssetDims}
  /\ graphics.zoom # I(1)
  /\ graphics.view # graphics.image

PanelError == "ValueError: Panel is not initialized."

\* C19: InternalDisplay.update called while the panel does not exist yet
\* fails with the ValueError "Panel is not initialized." and changes neither
\* the window nor the Graphics object.
C19_UpdateBeforePanelFails ==
  [][(CallUpdate /\ window.panel = <<>>) =>
       /\ raised' = PanelError
       /\ window' = window
       /\ graphics' = graphics
       /\ display' = display
       /\ stdout' = stdout]_vars

\* update has been called on a constructed window that was never shown.
C19_Witness ==
  /\ raised = PanelError
  /\ window.state = "constructed"
  /\ window.panel = <<>>
  /\ graphics.loaded

(***************************************************************************)
(* The view as a function of the zoom factor.                              *)
(***************************************************************************)
\* The box centred at (width/2, height/2) whose full extent is
\* width/zoom_factor by height/zoom_factor, before Image.crop rounds it.
ZoomBox(g) ==
  <<RSub(Norm(<<g.width, 2>>), RDiv(RDiv(I(g.width), g.zoom), I(2))),
    RSub(Norm(<<g.height, 2>>), RDiv(RDiv(I(g.height), g.zoom), I(2))),
    RAdd(Norm(<<g.width, 2>>), RDiv(RDiv(I(g.width), g.zoom), I(2))),
    RAdd(Norm(<<g.height, 2>>), RDiv(RDiv(I(g.height), g.zoom), I(2)))>>

\* C20: in a session, where every zoom call is centred, the view is at any
\* time the cut of the image by the box centred at (width/2, height/2) with
\* full extent width/zoom_factor by height/zoom_factor, scaled to the tracked
\* size: it depends on the image, the tracked size and the current zoom
\* factor only, whatever zoom calls, accepted or rejected, led there.
C20_ViewDependsOnZoomFactorOnly ==
  (display.state = "listening" \/ window.state = "mainloop") =>
    graphics.view
      = ImResize(ImCrop(graphics.image, ZoomBox(graphics)),
                 graphics.width, graphics.height)

\* The LED matrix session at the floor after accepted zoom-outs and a
\* rejected one, with a view that is not the image.
C20_Witness ==
  /\ display.state = "listening"
  /\ graphics.zoom = <<1, 8>>
  /\ stdout = MinZoomMessage
  /\ graphics.view # graphics.image
  /\ graphics.view
       = ImResize(ImCrop(graphics.image, ZoomBox(graphics)),
                  graphics.width, graphics.height)

====
